---- MODULE Spec2Model ----
(***************************************************************************)
(* torch/csrc/jit/mobile/module.cpp: the instrumented call path            *)
(* (Method::run, Method::operator()), the function registry and method     *)
(* lookup (CompilationUnit::register_function / find_function,             *)
(* Module::find_method / get_method), and the operations on the object     *)
(* tree (Module::train, is_training, parameters, named_parameters).        *)
(*                                                                         *)
(* A std::string is a sequence of tokens, so the empty string is << >> and *)
(* concatenation is \o.  One thread is modelled: its call stack is         *)
(* `frames`, one frame per Method::run invocation in progress.             *)
(***************************************************************************)
EXTENDS Integers, Sequences, FiniteSets, TLC

\* ------------------------------------------------------------------ bounds
\* Deepest nesting of Method::run invocations (Function::run calling back).
MaxDepth == 2
\* Most functions registered in one CompilationUnit.
MaxFns == 3

\* ------------------------------------------------------- external interface
\* The functions of the owning module's compilation unit.
Fns == {1, 2}

\* Function::name()
FnName(f) == IF f = 1 THEN "forward" ELSE "helper"

\* Function::getExceptionDebugHandle()
getExceptionDebugHandle(f) == IF f = 1 THEN "h1" ELSE "h2"

\* owner_->_ivalue(): the module's root Object.
Self == "self"

\* Stacks a caller passes, and stacks Function::run leaves behind.
ArgStacks == {<< >>, <<"a", "b">>}
ResultStacks == {<< >>, <<"r", "a">>}

\* std::rand(): two values, so that two invocations can draw the same key
\* or different ones.
Keys == {0, 1}

\* Module metadata a loaded module can carry.
Metadatas == {("version" :> "1"), ("model_name" :> "net") @@ ("version" :> "1")}

NoExc == [kind |-> "none", msg |-> "", ctx |-> << >>, handles |-> << >>]

\* What Function::run can throw: c10::BackendRuntimeException (constructed
\* with the debug handle of the failing instruction), c10::Error, or an
\* exception that is neither.
RaisedExceptions ==
    { [kind |-> "backend", msg |-> "delegate failed", ctx |-> << >>, handles |-> <<"h0">>],
      [kind |-> "error", msg |-> "op failed", ctx |-> << >>, handles |-> << >>],
      [kind |-> "other", msg |-> "bad_alloc", ctx |-> << >>, handles |-> << >>] }

\* The exception of a failed TORCH_INTERNAL_ASSERT (a c10::Error).
AssertError ==
    [kind |-> "error", msg |-> "INTERNAL ASSERT FAILED", ctx |-> << >>, handles |-> << >>]

\* The debug table maps h0 and h1 to source text and has no entry for h2.
SymbolOf(h) == IF h = "h0" THEN <<"backend.py:3">>
               ELSE IF h = "h1" THEN <<"model.py:7">>
               ELSE << >>

RECURSIVE getSourceDebugString(_)
\* MobileDebugTable::getSourceDebugString(handles, top_module_type_name)
getSourceDebugString(hs) ==
    IF hs = << >> THEN << >>
    ELSE SymbolOf(Head(hs)) \o getSourceDebugString(Tail(hs))

RECURSIVE JoinContext(_)
JoinContext(ctx) ==
    IF ctx = << >> THEN << >>
    ELSE <<"|">> \o Head(ctx) \o JoinContext(Tail(ctx))

\* c10::Error::what(): the message followed by every context added so far.
what(e) == <<e.msg>> \o JoinContext(e.ctx)

\* c10::Error::add_context
add_context(e, c) == [e EXCEPT !.ctx = Append(@, c)]

\* c10::BackendRuntimeException::pushDebugHandle
pushDebugHandle(e, h) == [e EXCEPT !.handles = Append(@, h)]

\* ------------------------------------------------------------------- state
VARIABLES
    symbolicate,   \* SYMBOLICATE_MOBILE_DEBUG_HANDLE is defined in this build
    metadata,      \* owner_->getMetadata()
    observer,      \* torch::observerConfig().getModuleObserver() is non-null
    frames,        \* the thread's Method::run invocations, outermost first
    debugInfo,     \* the thread's MOBILE_RUNTIME_INFO debug-info stack
    ret,           \* << >>, or <<r>>: the invocation that has just left
    methods_,      \* CompilationUnit::methods_
    found,         \* << >>, or <<r>>: the last find_function call
    lookup,        \* << >>, or <<r>>: the last find_method / get_method call
    heap,          \* the Objects: heap[o] is the slots of object o, in order
    call           \* the train / parameters / named_parameters call under way

runVars == <<symbolicate, metadata, observer, frames, debugInfo, ret>>
cuVars == <<methods_, found, lookup>>
treeVars == <<heap, call>>
vars == <<symbolicate, metadata, observer, frames, debugInfo, ret, methods_, found, lookup, heap, call>>

Top == frames[Len(frames)]
SetTop(fr) == [frames EXCEPT ![Len(frames)] = fr]
Pop(s) == SubSeq(s, 1, Len(s) - 1)

\* No Object, and no call on the object tree under way.  A call record holds
\* the argument `on`, the activations of the recursion (`work`, innermost
\* last: the object, the slot the loop is at, the name prefix), the results
\* built so far (params, named, result) and history the code does not read:
\* the objects entered in order (visits), the number of assignments to the
\* map (writes), the heap when the call began (before).
NoHeap == << >>
Idle ==
    [op |-> "idle", status |-> "done", on |-> FALSE, work |-> << >>,
     params |-> << >>, named |-> << >>, result |-> FALSE,
     visits |-> << >>, writes |-> 0, before |-> << >>]


\* ------------------------------------------------------- observer (external)
\* A key is drawn again for the terminal notification.
Note_Redrawn(fr, type, msg, md) ==
    [type |-> type,
     key |-> IF type = "enter" THEN fr.instance_key ELSE 1 - fr.instance_key,
     msg |-> msg, metadata |-> md,
     name |-> IF type = "enter" THEN FnName(fr.function_) ELSE "",
     scoped |-> fr.guard, started |-> fr.runs > 0]

\* A notification as the observer receives it, with what held when it came:
\* `scoped`: this invocation's DebugInfoGuard was installed; `started`:
\* Function::run had been entered.
Note(fr, type, msg, md) ==
    [type |-> type, key |-> fr.instance_key, msg |-> msg, metadata |-> md,
     name |-> IF type = "enter" THEN FnName(fr.function_) ELSE "",
     scoped |-> fr.guard, started |-> fr.runs > 0]

\* observer->onEnterRunMethod(copied_metadata, instance_key, function_->name())
onEnterRunMethod(fr) ==
    [fr EXCEPT !.notes = Append(@, Note(fr, "enter", << >>, fr.copied_metadata))]

\* observer->onExitRunMethod(instance_key)
onExitRunMethod(fr) ==
    [fr EXCEPT !.notes = Append(@, Note(fr, "exit", << >>, << >>))]

\* observer->onFailRunMethod(instance_key, message)
onFailRunMethod(fr, message) ==
    [fr EXCEPT !.notes = Append(@, Note(fr, "fail", message, << >>))]

\* -------------------------------------------------------------- Method::run
UnknownException == <<"Unknown exception">>

\* The locals of a Method::run invocation after lines 181-187, and what the
\* invocation has done so far (args, delegated, runs, raised, notes,
\* debugBefore record history; the code does not read them).
NewFrame(f, args, key, op) ==
    [function_ |-> f, op |-> op, pc |-> "enter",
     observer |-> observer, instance_key |-> key, copied_metadata |-> metadata,
     stack |-> args, error_message |-> << >>, failure_guard |-> FALSE,
     guard |-> FALSE, exc |-> NoExc,
     args |-> args, delegated |-> << >>, runs |-> 0, raised |-> NoExc,
     notes |-> << >>, debugBefore |-> debugInfo]

\* A caller, or a Function::run in progress, may start an invocation.
CanCall ==
    /\ Len(frames) < MaxDepth
    /\ \/ frames = << >>
       \/ frames # << >> /\ Top.pc = "exec" /\ ret = << >>

\* Method::run(stack), lines 180-187: observer, instance_key, copied_metadata.
MethodRun(f, args, key) ==
    /\ CanCall
    /\ frames' = Append(frames, NewFrame(f, args, key, FALSE))
    /\ ret' = << >>
    /\ UNCHANGED <<symbolicate, metadata, observer, debugInfo, methods_, found, lookup, heap, call>>

\* Method::operator()(stack), lines 247-248: run on its own copy of the stack.
MethodCall(f, args, key) ==
    /\ CanCall
    /\ frames' = Append(frames, NewFrame(f, args, key, TRUE))
    /\ ret' = << >>
    /\ UNCHANGED <<symbolicate, metadata, observer, debugInfo, methods_, found, lookup, heap, call>>

\* The enter notification is left out.
EnterStep_Skipped(fr) == [fr EXCEPT !.pc = "scope"]

\* Lines 189-192.
EnterStep(fr) ==
    [(IF fr.observer THEN onEnterRunMethod(fr) ELSE fr) EXCEPT !.pc = "scope"]

NotifyEnter ==
    /\ frames # << >> /\ Top.pc = "enter"
    /\ frames' = SetTop(EnterStep(Top))
    /\ UNCHANGED <<symbolicate, metadata, observer, debugInfo, ret, methods_, found, lookup, heap, call>>

\* A missing "model_name" is filled in with the module's name.
WithModelName_Filled(md) ==
    IF "model_name" \in DOMAIN md THEN md ELSE md @@ ("model_name" :> "module")

\* copied_metadata["model_name"]: std::unordered_map::operator[] inserts an
\* empty value for a missing key.
WithModelName(md) ==
    IF "model_name" \in DOMAIN md THEN md ELSE md @@ ("model_name" :> "")

\* Lines 194-197: the MobileDebugInfo record.
MobileDebugInfo(fr) ==
    [model_name |-> WithModelName(fr.copied_metadata)["model_name"],
     method_name |-> FnName(fr.function_)]

\* Line 198: at::DebugInfoGuard's constructor pushes the record.
DebugInfoGuardPush(info, fr) == Append(info, MobileDebugInfo(fr))

\* The record stays on the stack.
DebugInfoGuardPop_Leak(info, fr) == info

\* at::DebugInfoGuard's destructor pops it.
DebugInfoGuardPop(info, fr) == IF fr.guard THEN Pop(info) ELSE info

\* The guard is a temporary, destroyed as soon as it is made.
InstallScope_Temporary ==
    /\ frames # << >> /\ Top.pc = "scope"
    /\ frames' = SetTop([Top EXCEPT !.copied_metadata = WithModelName(@),
                                    !.pc = "guard"])
    /\ UNCHANGED <<symbolicate, metadata, observer, debugInfo, ret, methods_, found, lookup, heap, call>>

InstallScope ==
    /\ frames # << >> /\ Top.pc = "scope"
    /\ debugInfo' = DebugInfoGuardPush(debugInfo, Top)
    /\ frames' = SetTop([Top EXCEPT !.copied_metadata = WithModelName(@),
                                    !.guard = TRUE, !.pc = "guard"])
    /\ UNCHANGED <<symbolicate, metadata, observer, ret, methods_, found, lookup, heap, call>>

\* Lines 200-216: error_message and the armed failure_guard.
RegisterFailureGuard ==
    /\ frames # << >> /\ Top.pc = "guard"
    /\ frames' = SetTop([Top EXCEPT !.error_message = << >>,
                                    !.failure_guard = TRUE, !.pc = "try"])
    /\ UNCHANGED <<symbolicate, metadata, observer, debugInfo, ret, methods_, found, lookup, heap, call>>

\* self is pushed at the back.
InsertBack(stack) == Append(stack, Self)

\* Line 219: stack.insert(stack.begin(), owner_->_ivalue()).
InsertFront(stack) == <<Self>> \o stack

\* Lines 219-220: insert self, enter Function::run.
Delegate ==
    /\ frames # << >> /\ Top.pc = "try"
    /\ frames' = SetTop([Top EXCEPT !.stack = InsertFront(@),
                                    !.delegated = InsertFront(Top.stack),
                                    !.runs = @ + 1, !.pc = "exec"])
    /\ UNCHANGED <<symbolicate, metadata, observer, debugInfo, ret, methods_, found, lookup, heap, call>>


\* ------------------------------------------------ Function::run (external)
\* Line 220: Function::run returns, leaving any stack behind.
FunctionReturn(s) ==
    /\ frames # << >> /\ Top.pc = "exec" /\ ret = << >>
    /\ frames' = SetTop([Top EXCEPT !.stack = s, !.pc = "exit"])
    /\ UNCHANGED <<symbolicate, metadata, observer, debugInfo, ret, methods_, found, lookup, heap, call>>

\* Line 220: Function::run throws.
FunctionRaise(e) ==
    /\ frames # << >> /\ Top.pc = "exec" /\ ret = << >>
    /\ frames' = SetTop([Top EXCEPT !.exc = e, !.raised = e, !.pc = "thrown"])
    /\ UNCHANGED <<symbolicate, metadata, observer, debugInfo, ret, methods_, found, lookup, heap, call>>

\* Line 220: Function::run goes on after an invocation it made has left
\* (normally, or with an exception that Function::run handled).
FunctionResume ==
    /\ frames # << >> /\ Top.pc = "exec" /\ ret # << >>
    /\ ret' = << >>
    /\ UNCHANGED <<symbolicate, metadata, observer, frames, debugInfo, methods_, found, lookup, heap, call>>

\* Line 220: the exception of an invocation Function::run made leaves
\* Function::run too.
FunctionPropagate ==
    /\ frames # << >> /\ Top.pc = "exec" /\ ret # << >>
    /\ ret[1].status = "exc"
    /\ frames' = SetTop([Top EXCEPT !.exc = ret[1].exc, !.raised = ret[1].exc,
                                    !.pc = "thrown"])
    /\ ret' = << >>
    /\ UNCHANGED <<symbolicate, metadata, observer, debugInfo, methods_, found, lookup, heap, call>>

\* ------------------------------------------------ Method::run, after the call
\* The guard is left armed.
ReleaseFailureGuard_Forgotten(fr) == fr

\* Line 224: failure_guard.release().
ReleaseFailureGuard(fr) == [fr EXCEPT !.failure_guard = FALSE]

\* Lines 221-224.
ExitStep(fr) ==
    [ReleaseFailureGuard(IF fr.observer THEN onExitRunMethod(fr) ELSE fr)
        EXCEPT !.pc = "unwind"]

NotifyExit ==
    /\ frames # << >> /\ Top.pc = "exit"
    /\ frames' = SetTop(ExitStep(Top))
    /\ UNCHANGED <<symbolicate, metadata, observer, debugInfo, ret, methods_, found, lookup, heap, call>>

\* The handle is put in front of the list.
AugmentBackend_PushFront(e, f) ==
    IF symbolicate
    THEN LET pushed == [e EXCEPT !.handles = <<getExceptionDebugHandle(f)>> \o @]
         IN add_context(pushed, getSourceDebugString(pushed.handles))
    ELSE e

\* Lines 227-233: the handle is pushed and the context added only in a
\* build that defines SYMBOLICATE_MOBILE_DEBUG_HANDLE.
AugmentBackend(e, f) ==
    IF symbolicate
    THEN LET pushed == pushDebugHandle(e, getExceptionDebugHandle(f))
         IN add_context(pushed, getSourceDebugString(pushed.handles))
    ELSE e

\* Lines 237-241.
AugmentError(e, f) ==
    IF symbolicate
    THEN add_context(e, getSourceDebugString(<<getExceptionDebugHandle(f)>>))
    ELSE e

\* The handler records the message and does not throw again.
RecordAndSwallow(fr, e) ==
    [fr EXCEPT !.exc = NoExc, !.error_message = what(e), !.pc = "unwind"]

\* Lines 234-235 and 242-243: error_message = e.what(); TORCH_RETHROW(e)
\* throws the exception in flight again.
RecordAndRethrow(fr, e) ==
    [fr EXCEPT !.exc = e, !.error_message = what(e), !.pc = "unwind"]

\* Lines 226-235: catch (c10::BackendRuntimeException& e).
CatchBackend ==
    /\ frames # << >> /\ Top.pc = "thrown" /\ Top.exc.kind = "backend"
    /\ frames' = SetTop(RecordAndRethrow(Top, AugmentBackend(Top.exc, Top.function_)))
    /\ UNCHANGED <<symbolicate, metadata, observer, debugInfo, ret, methods_, found, lookup, heap, call>>

\* Lines 236-244: catch (c10::Error& error).
CatchError ==
    /\ frames # << >> /\ Top.pc = "thrown" /\ Top.exc.kind = "error"
    /\ frames' = SetTop(RecordAndRethrow(Top, AugmentError(Top.exc, Top.function_)))
    /\ UNCHANGED <<symbolicate, metadata, observer, debugInfo, ret, methods_, found, lookup, heap, call>>

\* Lines 218-244: no handler matches any other exception; it unwinds.
Uncaught ==
    /\ frames # << >> /\ Top.pc = "thrown" /\ Top.exc.kind = "other"
    /\ frames' = SetTop([Top EXCEPT !.pc = "unwind"])
    /\ UNCHANGED <<symbolicate, metadata, observer, debugInfo, ret, methods_, found, lookup, heap, call>>

\* The message is passed on as it is, empty or not.
FailureGuardBody_NoPlaceholder(fr) ==
    IF ~fr.observer THEN fr
    ELSE LET em == IF symbolicate /\ fr.error_message = << >>
                   THEN getSourceDebugString(<<getExceptionDebugHandle(fr.function_)>>)
                   ELSE fr.error_message
         IN onFailRunMethod([fr EXCEPT !.error_message = em], em)

\* Lines 202-215: the body of the failure_guard lambda.
FailureGuardBody(fr) ==
    IF ~fr.observer THEN fr
    ELSE LET em == IF symbolicate /\ fr.error_message = << >>
                   THEN getSourceDebugString(<<getExceptionDebugHandle(fr.function_)>>)
                   ELSE fr.error_message
         IN onFailRunMethod([fr EXCEPT !.error_message = em],
                            IF em = << >> THEN UnknownException ELSE em)

\* Lines 201-216: failure_guard's destructor runs the lambda unless released.
FailureGuardExit(fr) ==
    [(IF fr.failure_guard THEN FailureGuardBody(fr) ELSE fr)
        EXCEPT !.failure_guard = FALSE, !.pc = "release"]

\* failure_guard, declared after guard, is destroyed first.
RunFailureGuard ==
    /\ frames # << >> /\ Top.pc = "unwind"
    /\ frames' = SetTop(FailureGuardExit(Top))
    /\ UNCHANGED <<symbolicate, metadata, observer, debugInfo, ret, methods_, found, lookup, heap, call>>

\* How an invocation left: normally ("ok") with `value` when operator()
\* returned one, or with the exception `exc`.
Left(fr, status, e, value) ==
    <<[status |-> status, exc |-> e, value |-> value, fr |-> fr]>>

\* Line 198 / 245: guard's destructor, then Method::run is left.  A normal
\* return into operator() goes on at line 249.
ReleaseScope ==
    /\ frames # << >> /\ Top.pc = "release"
    /\ debugInfo' = DebugInfoGuardPop(debugInfo, Top)
    /\ LET fr == [Top EXCEPT !.guard = FALSE, !.pc = "left"]
       IN IF fr.exc = NoExc /\ fr.op
          THEN /\ frames' = SetTop(fr)
               /\ ret' = ret
          ELSE /\ frames' = Pop(frames)
               /\ ret' = Left(fr, IF fr.exc = NoExc THEN "ok" ELSE "exc", fr.exc, << >>)
    /\ UNCHANGED <<symbolicate, metadata, observer, methods_, found, lookup, heap, call>>

\* stack.back() is returned.
OperatorResult_Back(fr) ==
    IF fr.stack = << >>
    THEN Left(fr, "exc", AssertError, << >>)
    ELSE Left(fr, "ok", NoExc, <<fr.stack[Len(fr.stack)]>>)

\* Lines 249-250: TORCH_INTERNAL_ASSERT(!stack.empty()); return stack.front().
OperatorResult(fr) ==
    IF fr.stack = << >>
    THEN Left(fr, "exc", AssertError, << >>)
    ELSE Left(fr, "ok", NoExc, <<Head(fr.stack)>>)

OperatorReturn ==
    /\ frames # << >> /\ Top.pc = "left"
    /\ frames' = Pop(frames)
    /\ ret' = OperatorResult(Top)
    /\ UNCHANGED <<symbolicate, metadata, observer, debugInfo, methods_, found, lookup, heap, call>>

\* torch::observerConfig().setModuleObserver: the host installs or removes
\* the process-wide observer, between calls or while an outermost call runs.
SetModuleObserver ==
    /\ Len(frames) <= 1
    /\ observer' = ~observer
    /\ UNCHANGED <<symbolicate, metadata, frames, debugInfo, ret, methods_, found, lookup, heap, call>>

\* ---------------------------------------------------------- CompilationUnit
\* c10::QualifiedName: the atoms of the name; Function::name() is the last.
QualNames == {<<"m", "forward">>, <<"m", "helper">>, <<"sub", "forward">>}

\* nullptr
Null == 0

\* A Function object: `id` is its address, distinct for every object made.
NewFunction(qn) == [id |-> Len(methods_) + 1, qualname |-> qn]

\* Lines 18-20: methods_.emplace_back(std::move(fn)).
register_function(ms, fn) == Append(ms, fn)

RECURSIVE find_function_last(_, _)
\* The last match is returned.
find_function_last(ms, qn) ==
    IF ms = << >> THEN Null
    ELSE IF ms[Len(ms)].qualname = qn THEN ms[Len(ms)].id
    ELSE find_function_last(SubSeq(ms, 1, Len(ms) - 1), qn)

RECURSIVE find_function(_, _)
\* Lines 22-29: the first fn of methods_ with fn->qualname() == qn, or nullptr.
find_function(ms, qn) ==
    IF ms = << >> THEN Null
    ELSE IF Head(ms).qualname = qn THEN Head(ms).id
    ELSE find_function(Tail(ms), qn)

\* Function::name(): the last atom of the qualified name.
name(fn) == fn.qualname[Len(fn.qualname)]

\* Names a caller asks for.
MethodNames == {"forward", "helper"}

\* Method(this, fn.get()), lines 177-178.
Method(fn) == [owner_ |-> "this", function_ |-> fn.id]

RECURSIVE find_method_by_qualname(_, _)
\* The basename is compared with the qualified name.
find_method_by_qualname(ms, basename) ==
    IF ms = << >> THEN << >>
    ELSE IF Head(ms).qualname = <<basename>> THEN <<Method(Head(ms))>>
    ELSE find_method_by_qualname(Tail(ms), basename)

RECURSIVE find_method(_, _)
\* Lines 38-45: the first fn of cu_->methods() with fn->name() == basename as
\* an optional Method (<<m>>), or c10::nullopt (<< >>).
find_method(ms, basename) ==
    IF ms = << >> THEN << >>
    ELSE IF name(Head(ms)) = basename THEN <<Method(Head(ms))>>
    ELSE find_method(Tail(ms), basename)

\* Line 35: AT_ERROR("Method '", name, "' is not defined.").
NotDefined(basename) == <<"Method '", basename, "' is not defined.">>

\* Lines 31-36: the Method found, or the error thrown.
get_method(ms, basename) ==
    LET method == find_method(ms, basename)
    IN IF method # << >>
       THEN [op |-> "get_method", name |-> basename, method |-> method, error |-> << >>]
       ELSE [op |-> "get_method", name |-> basename, method |-> << >>,
             error |-> NotDefined(basename)]

FindMethod(basename) ==
    /\ lookup' = <<[op |-> "find_method", name |-> basename,
                    method |-> find_method(methods_, basename), error |-> << >>]>>
    /\ UNCHANGED <<methods_, found>>
    /\ UNCHANGED runVars
    /\ UNCHANGED treeVars

GetMethod(basename) ==
    /\ lookup' = <<get_method(methods_, basename)>>
    /\ UNCHANGED <<methods_, found>>
    /\ UNCHANGED runVars
    /\ UNCHANGED treeVars

RegisterFunction(qn) ==
    /\ Len(methods_) < MaxFns
    /\ methods_' = register_function(methods_, NewFunction(qn))
    /\ found' = << >>
    /\ lookup' = << >>
    /\ UNCHANGED runVars
    /\ UNCHANGED treeVars

FindFunction(qn) ==
    /\ found' = <<[qn |-> qn, result |-> find_function(methods_, qn)]>>
    /\ UNCHANGED <<methods_, lookup>>
    /\ UNCHANGED runVars
    /\ UNCHANGED treeVars

\* -------------------------------------------------------------- object tree
\* Most Objects in a module's tree.
MaxObjs == 3

\* Module::object_
Root == 1

\* A slot: the attribute name its type gives it and the IValue it holds
\* (a bool b, a tensor t, or a reference ref to an Object).
BoolSlot(n, b) == [name |-> n, kind |-> "bool", b |-> b, t |-> "", ref |-> 0]
TensorSlot(n, t) == [name |-> n, kind |-> "tensor", b |-> FALSE, t |-> t, ref |-> 0]
ObjectSlot(n, o) == [name |-> n, kind |-> "object", b |-> FALSE, t |-> "", ref |-> o]

\* at::Tensor::requires_grad(): "w" tracks gradients, "buf" does not.
requires_grad(t) == t = "w"

\* The attributes an object can have besides "training": an inner object o
\* holds a buffer, the next object and a weight, or the next object twice
\* (shared), or only a weight, or the root again and then the next object
\* (a cycle), or the next two objects (siblings); the last object holds a
\* weight and a buffer, or refers back to the root (a cycle).
Bodies(o) ==
    IF o < MaxObjs
    THEN { <<TensorSlot("buf", "buf"), ObjectSlot("child", o + 1), TensorSlot("weight", "w")>>,
           <<ObjectSlot("left", o + 1), ObjectSlot("right", o + 1)>>,
           <<TensorSlot("weight", "w")>>,
           <<ObjectSlot("back", Root), ObjectSlot("child", o + 1)>> }
         \cup (IF o + 2 <= MaxObjs
               THEN { <<ObjectSlot("left", o + 1), ObjectSlot("right", o + 2)>> }
               ELSE {})
    ELSE { <<TensorSlot("weight", "w"), TensorSlot("buf", "buf")>>,
           <<ObjectSlot("back", Root)>> }

\* An object's slots: "training" first when it has the attribute.
Layouts(o) ==
    Bodies(o) \cup { <<BoolSlot("training", FALSE)>> \o body : body \in Bodies(o) }

\* The objects some slot of the first k objects refers to, with the root
\* (references go to later objects or back to the root).
RECURSIVE Referenced(_, _)
Referenced(h, k) ==
    IF k = 0 THEN {Root}
    ELSE LET r == Referenced(h, k - 1)
         IN IF k \in r
            THEN r \cup {h[k][i].ref : i \in {j \in 1..Len(h[k]) : h[k][j].kind = "object"}}
            ELSE r

RECURSIVE HeapsOf(_)
\* The heaps of the first k objects: an object no slot refers to is left
\* out (it has no slots).
HeapsOf(k) ==
    IF k = 0 THEN {<< >>}
    ELSE UNION { { Append(h, slots) :
                   slots \in IF k \in Referenced(h, k - 1) THEN Layouts(k) ELSE {<< >>} } :
                 h \in HeapsOf(k - 1) }

\* The heaps a loaded module can have.
Heaps == HeapsOf(MaxObjs)

RECURSIVE findAttributeSlot(_, _)
\* ClassType::findAttributeSlot(name): the index of the attribute, 0 when
\* the type has none of that name.
findAttributeSlot(slots, n) ==
    IF slots = << >> THEN 0
    ELSE IF slots[Len(slots)].name = n /\ findAttributeSlot(Pop(slots), n) = 0
         THEN Len(slots)
         ELSE findAttributeSlot(Pop(slots), n)

\* Only the root's slot is written.
setSlot_RootOnly(h, o, i, on) ==
    IF o = Root THEN [h EXCEPT ![o][i] = [@ EXCEPT !.kind = "bool", !.b = on]] ELSE h

\* Object::setSlot(slot, on)
setSlot(h, o, i, on) ==
    [h EXCEPT ![o][i] = [@ EXCEPT !.kind = "bool", !.b = on]]

\* The innermost activation, and the call with it replaced.
Cur == call.work[Len(call.work)]
SetCur(c, a) == [c EXCEPT !.work[Len(c.work)] = a]

\* An object entered before is not entered again.
Recurse_Once(c, o, i, prefix) ==
    IF o \in {c.visits[k] : k \in DOMAIN c.visits}
    THEN c
    ELSE [c EXCEPT !.work = Append(@, [obj |-> o, i |-> i, prefix |-> prefix]),
                   !.visits = Append(@, o)]

\* A recursive call on object o: one more activation.  More activations
\* than objects means an object is inside itself: the recursion does not end.
Recurse(c, o, i, prefix) ==
    IF Len(c.work) >= MaxObjs
    THEN [c EXCEPT !.status = "overflow", !.work = << >>]
    ELSE [c EXCEPT !.work = Append(@, [obj |-> o, i |-> i, prefix |-> prefix]),
                   !.visits = Append(@, o)]

\* The first call, on object_.
Begin(op, on, i) ==
    [Idle EXCEPT !.op = op, !.status = "busy", !.on = on,
                 !.work = <<[obj |-> Root, i |-> i, prefix |-> << >>]>>,
                 !.visits = <<Root>>, !.before = heap]

\* Lines 158-160: Module::train(on).
Train(on) ==
    /\ call.status # "busy"
    /\ call' = Begin("train", on, 0)
    /\ UNCHANGED heap
    /\ UNCHANGED runVars
    /\ UNCHANGED cuVars

\* Lines 108-112: Module::parameters().
Parameters ==
    /\ call.status # "busy"
    /\ call' = Begin("parameters", FALSE, 1)
    /\ UNCHANGED heap
    /\ UNCHANGED runVars
    /\ UNCHANGED cuVars

\* Lines 118-123: Module::named_parameters().
NamedParameters ==
    /\ call.status # "busy"
    /\ call' = Begin("named_parameters", FALSE, 1)
    /\ UNCHANGED heap
    /\ UNCHANGED runVars
    /\ UNCHANGED cuVars

\* Lines 162-167: the root's "training" slot, true when it has none.
is_training(h) ==
    LET slot == findAttributeSlot(h[Root], "training")
    IN IF slot # 0 THEN h[Root][slot].b ELSE TRUE

IsTraining ==
    /\ call.status # "busy"
    /\ call' = [Idle EXCEPT !.op = "is_training", !.result = is_training(heap)]
    /\ UNCHANGED heap
    /\ UNCHANGED runVars
    /\ UNCHANGED cuVars

\* The missing attribute is passed over.
AssertFails_Skip(c) == [c EXCEPT !.work[Len(c.work)].i = 1]

\* Line 54: TORCH_INTERNAL_ASSERT(false, ...) throws out of every activation.
AssertFails(c) == [c EXCEPT !.status = "failed", !.work = << >>]

\* The failure undoes the writes made so far.
SetTraining_Atomic ==
    /\ call.status = "busy" /\ call.op = "train" /\ Cur.i = 0
    /\ LET slot == findAttributeSlot(heap[Cur.obj], "training")
       IN IF slot # 0
          THEN /\ heap' = setSlot(heap, Cur.obj, slot, call.on)
               /\ call' = SetCur(call, [Cur EXCEPT !.i = 1])
          ELSE /\ heap' = call.before
               /\ call' = AssertFails(call)
    /\ UNCHANGED runVars
    /\ UNCHANGED cuVars

\* Lines 51-55: set "training" on the object entered, or fail.
SetTraining ==
    /\ call.status = "busy" /\ call.op = "train" /\ Cur.i = 0
    /\ LET slot == findAttributeSlot(heap[Cur.obj], "training")
       IN IF slot # 0
          THEN /\ heap' = setSlot(heap, Cur.obj, slot, call.on)
               /\ call' = SetCur(call, [Cur EXCEPT !.i = 1])
          ELSE /\ heap' = heap
               /\ call' = AssertFails(call)
    /\ UNCHANGED runVars
    /\ UNCHANGED cuVars

\* The loop goes on with the next slot.
NextSlot(c) == SetCur(c, [Cur EXCEPT !.i = @ + 1])

\* The slot the innermost loop is at.
CurSlot == heap[Cur.obj][Cur.i]
InLoop == call.status = "busy" /\ Cur.i >= 1 /\ Cur.i <= Len(heap[Cur.obj])

\* Lines 56-60: one iteration of set_train_recurse's loop.
TrainSlot ==
    /\ InLoop /\ call.op = "train"
    /\ call' = IF CurSlot.kind = "object"
               THEN Recurse(NextSlot(call), CurSlot.ref, 0, << >>)
               ELSE NextSlot(call)
    /\ UNCHANGED heap
    /\ UNCHANGED runVars
    /\ UNCHANGED cuVars

\* A tensor already collected is not collected again.
emplace_back_unique(c, t) ==
    IF t \in {c.params[k] : k \in DOMAIN c.params} THEN c
    ELSE [c EXCEPT !.params = Append(@, t)]

\* Line 68: params->emplace_back(slot.toTensor()).
emplace_back(c, t) == [c EXCEPT !.params = Append(@, t)]

\* Lines 66-72: one iteration of slot_params_recurse's loop.
ParamsSlot ==
    /\ InLoop /\ call.op = "parameters"
    /\ call' = IF CurSlot.kind = "tensor"
               THEN emplace_back(NextSlot(call), CurSlot.t)
               ELSE IF CurSlot.kind = "object"
               THEN Recurse(NextSlot(call), CurSlot.ref, 1, << >>)
               ELSE NextSlot(call)
    /\ UNCHANGED heap
    /\ UNCHANGED runVars
    /\ UNCHANGED cuVars

\* The attribute's name alone.
SlotName_Flat(parent_name, attr) == <<attr>>

\* Lines 83-85: the parent's name, a dot unless it is empty, the attribute.
SlotName(parent_name, attr) ==
    (IF Len(parent_name) = 0 THEN parent_name ELSE parent_name \o <<".">>) \o <<attr>>

\* Line 92: (*params)[name] = slot.toTensor().
Assign(c, n, t) ==
    [c EXCEPT !.named = (n :> t) @@ @, !.writes = @ + 1]

\* Lines 81-96: one iteration of slot_named_params_recurse's loop.
NamedSlot ==
    /\ InLoop /\ call.op = "named_parameters"
    /\ LET n == SlotName(Cur.prefix, CurSlot.name)
       IN call' = IF CurSlot.kind = "tensor" /\ requires_grad(CurSlot.t)
                  THEN Assign(NextSlot(call), n, CurSlot.t)
                  ELSE IF CurSlot.kind = "object"
                  THEN Recurse(NextSlot(call), CurSlot.ref, 1, n)
                  ELSE NextSlot(call)
    /\ UNCHANGED heap
    /\ UNCHANGED runVars
    /\ UNCHANGED cuVars

\* Lines 61, 73, 97: the loop is over, the activation returns; the call is
\* done when the first one does.
ReturnStep(c) ==
    [c EXCEPT !.work = Pop(@),
              !.status = IF Len(c.work) = 1 THEN "done" ELSE "busy"]

Return ==
    /\ call.status = "busy" /\ Cur.i > Len(heap[Cur.obj])
    /\ call' = ReturnStep(call)
    /\ UNCHANGED heap
    /\ UNCHANGED runVars
    /\ UNCHANGED cuVars

InitTree ==
    /\ symbolicate = FALSE
    /\ metadata = ("version" :> "1")
    /\ observer = FALSE
    /\ frames = << >>
    /\ debugInfo = << >>
    /\ ret = << >>
    /\ methods_ = << >>
    /\ found = << >>
    /\ lookup = << >>
    /\ heap \in Heaps
    /\ call = Idle

\* A step of the call under way.
Traverse ==
    \/ SetTraining
    \/ TrainSlot
    \/ ParamsSlot
    \/ NamedSlot
    \/ Return

NextTree ==
    \/ \E on \in BOOLEAN : Train(on)
    \/ Parameters
    \/ NamedParameters
    \/ IsTraining
    \/ SetTraining
    \/ TrainSlot
    \/ ParamsSlot
    \/ NamedSlot
    \/ Return

SpecTree == InitTree /\ [][NextTree]_vars

\* A call runs on until it returns or throws: the thread is not stopped.
SpecTreeFair == SpecTree /\ WF_vars(Traverse)

InitCU ==
    /\ symbolicate = FALSE
    /\ metadata = ("version" :> "1")
    /\ observer = FALSE
    /\ frames = << >>
    /\ debugInfo = << >>
    /\ ret = << >>
    /\ methods_ = << >>
    /\ found = << >>
    /\ lookup = << >>
    /\ heap = NoHeap
    /\ call = Idle

NextCU ==
    \/ \E qn \in QualNames : RegisterFunction(qn)
    \/ \E qn \in QualNames : FindFunction(qn)
    \/ \E basename \in MethodNames : FindMethod(basename)
    \/ \E basename \in MethodNames : GetMethod(basename)

SpecCU == InitCU /\ [][NextCU]_vars

Init ==
    /\ symbolicate \in BOOLEAN
    /\ metadata \in Metadatas
    /\ observer \in BOOLEAN
    /\ frames = << >>
    /\ debugInfo = << >>
    /\ ret = << >>
    /\ methods_ = << >>
    /\ found = << >>
    /\ lookup = << >>
    /\ heap = NoHeap
    /\ call = Idle

Next ==
    \/ \E f \in Fns, args \in ArgStacks, key \in Keys : MethodRun(f, args, key)
    \/ \E f \in Fns, args \in ArgStacks, key \in Keys : MethodCall(f, args, key)
    \/ NotifyEnter
    \/ InstallScope
    \/ RegisterFailureGuard
    \/ Delegate
    \/ \E s \in ResultStacks : FunctionReturn(s)
    \/ \E e \in RaisedExceptions : FunctionRaise(e)
    \/ FunctionResume
    \/ FunctionPropagate
    \/ NotifyExit
    \/ CatchBackend
    \/ CatchError
    \/ Uncaught
    \/ RunFailureGuard
    \/ ReleaseScope
    \/ OperatorReturn
    \/ SetModuleObserver

Spec == Init /\ [][Next]_vars


\* ------------------------------------------------------------------ claims
\* P holds of every invocation in progress and of the one that has just left.
EveryInvocation(P(_)) ==
    /\ \A i \in 1..Len(frames) : P(frames[i])
    /\ \A i \in 1..Len(ret) : P(ret[i].fr)

\* The number of notifications of one type an invocation has delivered.
Count(fr, type) ==
    Cardinality({i \in 1..Len(fr.notes) : fr.notes[i].type = type})

\* Method::run has been left (pc "left" is set as its scope is released).
HasLeft(fr) == fr.pc = "left"

OneTerminal(fr) ==
    /\ Count(fr, "exit") + Count(fr, "fail") <= 1
    /\ ~fr.observer => fr.notes = << >>
    /\ (HasLeft(fr) /\ fr.observer) =>
          /\ Count(fr, "exit") + Count(fr, "fail") = 1
          /\ (fr.raised = NoExc) => Count(fr, "exit") = 1
          /\ (fr.raised # NoExc) => Count(fr, "fail") = 1

\* C1: an invocation made with an observer installed has delivered exactly
\* one of exit and fail when it has left (exit after a normal return of
\* Function::run, fail after any exception), and never more than one before.
C1_ExactlyOneTerminal == EveryInvocation(OneTerminal)

\* C1 witness: an observed invocation has left with an exception that is
\* neither a backend-runtime exception nor a c10::Error, and fail was sent.
C1_Witness ==
    /\ ret # << >>
    /\ ret[1].fr.observer
    /\ ret[1].fr.raised.kind = "other"
    /\ Count(ret[1].fr, "fail") = 1

EnterFirst(fr) ==
    fr.observer =>
      /\ \A i \in 1..Len(fr.notes) :
            /\ (fr.notes[i].type = "enter") => (i = 1 /\ ~fr.notes[i].started)
            /\ (fr.notes[i].type \in {"exit", "fail"}) =>
                  (i > 1 /\ fr.notes[1].type = "enter")
      /\ (fr.runs > 0) => (fr.notes # << >> /\ fr.notes[1].type = "enter")

\* C2: with an observer, enter is the first notification of an invocation,
\* it is delivered before Function::run starts, exit and fail come after it,
\* and Function::run is never running without it.
C2_EnterPrecedes == EveryInvocation(EnterFirst)

\* C2 witness: Function::run is executing in an observed invocation.
C2_Witness ==
    /\ frames # << >>
    /\ Top.pc = "exec" /\ Top.observer /\ Top.runs = 1
    /\ Top.notes[1].type = "enter"

Propagates(fr) ==
    /\ fr.runs <= 1
    /\ HasLeft(fr) =>
          /\ fr.runs = 1
          /\ (fr.exc = NoExc) <=> (fr.raised = NoExc)
          /\ fr.exc.kind = fr.raised.kind
          /\ fr.exc.msg = fr.raised.msg

LeavesAsRaised(r) ==
    ~r.fr.op => /\ (r.status = "ok") <=> (r.fr.raised = NoExc)
                /\ r.exc.kind = r.fr.raised.kind

\* C3: Method::run returns normally exactly when Function::run did; an
\* exception that leaves it has the kind (and message) of the one
\* Function::run raised; Function::run is started once per invocation.
C3_ExceptionsPropagate ==
    /\ EveryInvocation(Propagates)
    /\ \A i \in 1..Len(ret) : LeavesAsRaised(ret[i])

\* C3 witness: a c10::Error raised by Function::run has left Method::run.
C3_Witness ==
    /\ ret # << >>
    /\ ~ret[1].fr.op
    /\ ret[1].status = "exc"
    /\ ret[1].exc.kind = "error"
    /\ ret[1].fr.raised.kind = "error"

\* C4: when Method::run has been left, by any path, the thread's debug-info
\* stack is what it was just before the call, nested calls included.
C4_ScopeReleased ==
    /\ \A i \in 1..Len(ret) : debugInfo = ret[i].fr.debugBefore
    /\ (frames # << >> /\ HasLeft(Top)) => debugInfo = Top.debugBefore

\* C4 witness: a nested invocation has left with an exception while the
\* outer invocation's scope is still installed.
C4_Witness ==
    /\ ret # << >>
    /\ frames # << >>
    /\ ret[1].status = "exc"
    /\ ret[1].fr.debugBefore # << >>
    /\ debugInfo = ret[1].fr.debugBefore

\* The debug-info stack holds the records of exactly the invocations whose
\* guard is installed.
ScopesMatchFrames ==
    /\ Len(debugInfo) = Cardinality({i \in 1..Len(frames) : frames[i].guard})
    /\ \A i \in 1..Len(debugInfo) :
          frames[i].guard /\ debugInfo[i] = MobileDebugInfo(frames[i])

AllScoped(fr) ==
    /\ \A i \in 1..Len(fr.notes) : fr.notes[i].scoped
    /\ (fr.pc \in {"exec", "exit", "thrown", "unwind"}) => fr.guard

\* C5 as claimed: every notification (enter included), Function::run and
\* the catch blocks happen while the invocation's scope is installed.
C5_ScopeBracketsAll == EveryInvocation(AllScoped)

ScopedAfterEnter(fr) ==
    /\ \A i \in 1..Len(fr.notes) :
          /\ (fr.notes[i].type = "enter") => ~fr.notes[i].scoped
          /\ (fr.notes[i].type \in {"exit", "fail"}) => fr.notes[i].scoped
    /\ (fr.pc \in {"exec", "exit", "thrown", "unwind"}) => fr.guard
    /\ (fr.pc \in {"enter", "scope", "left"}) => ~fr.guard

\* C5 amended: enter is sent before the scope is installed; Function::run,
\* the catch blocks (symbolication), exit and fail happen while it is
\* installed, and the installed scopes are those of the running invocations.
C5_ScopeAfterEnter ==
    /\ EveryInvocation(ScopedAfterEnter)
    /\ ScopesMatchFrames

\* C5 witness: an observed invocation has left after enter (unscoped) and
\* fail (scoped) were delivered.
C5_Witness ==
    /\ ret # << >>
    /\ Len(ret[1].fr.notes) = 2
    /\ ~ret[1].fr.notes[1].scoped
    /\ ret[1].fr.notes[2].type = "fail"
    /\ ret[1].fr.notes[2].scoped

HandleAppended(fr) ==
    (HasLeft(fr) /\ fr.raised.kind = "backend") =>
        fr.exc.handles = fr.raised.handles \o <<getExceptionDebugHandle(fr.function_)>>

\* C6 as claimed: a backend-runtime exception leaves Method::run with this
\* function's handle appended to the handles it had when raised.
C6_HandleAlwaysAppended == EveryInvocation(HandleAppended)

HandleAppendedIfSymbolicating(fr) ==
    (HasLeft(fr) /\ fr.raised.kind = "backend") =>
        /\ fr.exc.kind = "backend"
        /\ symbolicate =>
              fr.exc.handles =
                  fr.raised.handles \o <<getExceptionDebugHandle(fr.function_)>>
        /\ ~symbolicate => fr.exc.handles = fr.raised.handles

\* C6 amended: in a build that defines SYMBOLICATE_MOBILE_DEBUG_HANDLE the
\* handle list leaves as raised plus exactly this function's handle at the
\* end; in a build that does not, it leaves as raised.
C6_HandleAppendedWhenSymbolicating == EveryInvocation(HandleAppendedIfSymbolicating)

\* C6 witness: a backend-runtime exception has passed through two nested
\* invocations and carries the raised handle and one handle of each.
C6_Witness ==
    /\ ret # << >>
    /\ frames = << >>
    /\ symbolicate
    /\ ret[1].exc.kind = "backend"
    /\ Len(ret[1].exc.handles) = 3
    /\ ret[1].exc.handles[1] = "h0"

FailMessage(fr) ==
    /\ \A i \in 1..Len(fr.notes) :
          (fr.notes[i].type = "fail") => fr.notes[i].msg # << >>
    /\ (HasLeft(fr) /\ fr.observer /\ fr.raised # NoExc) =>
          LET msg == fr.notes[Len(fr.notes)].msg
              sym == getSourceDebugString(<<getExceptionDebugHandle(fr.function_)>>)
          IN /\ fr.notes[Len(fr.notes)].type = "fail"
             /\ (fr.raised.kind \in {"backend", "error"}) =>
                   (msg = what(fr.exc) /\ msg = fr.error_message)
             /\ (fr.raised.kind = "other" /\ (~symbolicate \/ sym = << >>)) =>
                   msg = UnknownException
             /\ (fr.raised.kind = "other" /\ symbolicate /\ sym # << >>) =>
                   msg = sym

\* C7: fail carries the message of the exception as augmented and recorded
\* by the catch block (backend-runtime exception, c10::Error), the
\* placeholder when nothing was recorded and symbolication gave nothing, and
\* never the empty string.
C7_FailMessage == EveryInvocation(FailMessage)

\* C7 witness: fail was sent with the placeholder.
C7_Witness ==
    /\ ret # << >>
    /\ ret[1].fr.observer
    /\ ret[1].fr.raised.kind = "other"
    /\ ret[1].fr.notes[Len(ret[1].fr.notes)].msg = UnknownException

SelfThenArgs(fr) ==
    (fr.runs > 0) =>
        /\ Len(fr.delegated) = Len(fr.args) + 1
        /\ fr.delegated[1] = Self
        /\ \A i \in 1..Len(fr.args) : fr.delegated[i + 1] = fr.args[i]

\* C8: the stack handed to Function::run is self followed by the caller's
\* arguments, unchanged and in their order.
C8_SelfAtFront ==
    /\ EveryInvocation(SelfThenArgs)
    /\ \A i \in 1..Len(frames) :
          (frames[i].pc = "try") => frames[i].stack = frames[i].args

\* C8 witness: Function::run is executing on a stack of self and two
\* arguments.
C8_Witness ==
    /\ frames # << >>
    /\ Top.pc = "exec"
    /\ Top.args = <<"a", "b">>
    /\ Top.stack = <<Self, "a", "b">>

FrontOrAssert(r) ==
    r.fr.op =>
        /\ r.fr.runs = 1
        /\ (r.fr.exc = NoExc /\ r.fr.stack # << >>) =>
              (r.status = "ok" /\ r.value = <<r.fr.stack[1]>>)
        /\ (r.fr.exc = NoExc /\ r.fr.stack = << >>) =>
              (r.status = "exc" /\ r.exc = AssertError /\ r.value = << >>)
        /\ (r.fr.exc # NoExc) =>
              (r.status = "exc" /\ r.exc = r.fr.exc /\ r.value = << >>)

\* C9: operator() runs the method once through Method::run; after a normal
\* return it yields the front of the stack, or fails the internal assertion
\* when the stack is empty; an exception of run leaves operator() as it is.
C9_OperatorReturnsFront == \A i \in 1..Len(ret) : FrontOrAssert(ret[i])

\* C9 witness: operator() has returned the front of a two-element stack.
C9_Witness ==
    /\ ret # << >>
    /\ ret[1].fr.op
    /\ ret[1].fr.stack = <<"r", "a">>
    /\ ret[1].value = <<"r">>

\* The positions of methods_ whose function has qualified name qn.
Matches(qn) == {i \in 1..Len(methods_) : methods_[i].qualname = qn}

FindsEarliest ==
    \A k \in 1..Len(found) :
        LET qn == found[k].qn
            res == found[k].result
        IN /\ (res = Null) <=> (Matches(qn) = {})
           /\ (Matches(qn) # {}) =>
                 \E i \in Matches(qn) :
                    /\ res = methods_[i].id
                    /\ \A j \in Matches(qn) : i <= j

\* C10: find_function returns the earliest-registered function of that
\* qualified name, and null exactly when there is none; it leaves methods_
\* as it is, and register_function appends one function behind the others.
C10_FindFunction ==
    /\ []FindsEarliest
    /\ [][/\ (found' # << >>) => methods_' = methods_
          /\ (found' = << >> /\ methods_' # methods_) =>
                /\ Len(methods_') = Len(methods_) + 1
                /\ SubSeq(methods_', 1, Len(methods_)) = methods_]_vars

\* C10 witness: a lookup found the first of two functions registered under
\* one qualified name.
C10_Witness ==
    /\ found # << >>
    /\ Cardinality(Matches(found[1].qn)) = 2
    /\ found[1].result = 1
    /\ Len(methods_) = 3
    /\ methods_[3].qualname = found[1].qn


\* C11 as claimed: no two registered functions have the same qualified
\* name, whatever was registered.
C11_UniqueQualifiedName ==
    \A qn \in QualNames : Cardinality(Matches(qn)) <= 1

\* The model name the debug info must carry for this metadata.
ModelNameOf(md) == IF "model_name" \in DOMAIN md THEN md["model_name"] ELSE ""

MetadataOnlyRead(fr) ==
    /\ DOMAIN fr.copied_metadata \subseteq DOMAIN metadata \cup {"model_name"}
    /\ \A k \in DOMAIN metadata :
          k \in DOMAIN fr.copied_metadata /\ fr.copied_metadata[k] = metadata[k]
    /\ (fr.pc \in {"enter", "scope"}) => fr.copied_metadata = metadata
    /\ \A i \in 1..Len(fr.notes) :
          (fr.notes[i].type = "enter") => fr.notes[i].metadata = metadata

KeyChosenOnce(fr) ==
    \A i \in 1..Len(fr.notes) :
        /\ fr.notes[i].key = fr.instance_key
        /\ fr.notes[i].key = fr.notes[1].key

NameMatches(basename) == {i \in 1..Len(methods_) : name(methods_[i]) = basename}

\* The Method for the earliest-registered function of that simple name.
EarliestNamed(basename) ==
    LET i == CHOOSE i \in NameMatches(basename) : \A j \in NameMatches(basename) : i <= j
    IN <<[owner_ |-> "this", function_ |-> methods_[i].id]>>

MethodLookup(r) ==
    /\ (r.op = "find_method") => r.error = << >>
    /\ (NameMatches(r.name) # {}) =>
          (r.method = EarliestNamed(r.name) /\ r.error = << >>)
    /\ (NameMatches(r.name) = {}) => r.method = << >>
    /\ (r.op = "get_method") =>
          /\ (r.error # << >>) <=> (NameMatches(r.name) = {})
          /\ (r.error # << >>) => (r.error[2] = r.name /\ r.error = NotDefined(r.name))

\* C12: find_method never raises and yields the Method of this Module and
\* the earliest-registered function of that simple name, or nothing;
\* get_method yields the same Method, and raises "not defined" with the name
\* exactly when there is none.
C12_MethodLookup == \A k \in 1..Len(lookup) : MethodLookup(lookup[k])

\* C12 witness: get_method returned the second-registered function, the
\* first of two with that simple name (under different qualified names).
C12_Witness ==
    /\ lookup # << >>
    /\ lookup[1].op = "get_method"
    /\ lookup[1].method = <<[owner_ |-> "this", function_ |-> 2]>>
    /\ Cardinality(NameMatches(lookup[1].name)) = 2
    /\ methods_[2].qualname # methods_[3].qualname

\* ------------------------------------------------- the object tree, by paths
\* A path is the sequence of slot indexes followed from the root through
\* object-valued slots; Walks(h, o, d) are the paths of at most d slots that
\* start at object o.
RECURSIVE Walks(_, _, _)
Walks(h, o, d) ==
    {<< >>} \cup
    (IF d = 0 THEN {}
     ELSE UNION { { <<i>> \o p : p \in Walks(h, h[o][i].ref, d - 1) } :
                  i \in {j \in 1..Len(h[o]) : h[o][j].kind = "object"} })

ObjectPaths(h) == Walks(h, Root, MaxObjs)

RECURSIVE ObjectAt(_, _)
\* The object a path ends at.
ObjectAt(h, p) ==
    IF p = << >> THEN Root ELSE h[ObjectAt(h, Pop(p))][p[Len(p)]].ref

Reachable(h) == {ObjectAt(h, p) : p \in ObjectPaths(h)}

\* A path through as many slots as there are objects passes some object twice.
Acyclic(h) == \A p \in ObjectPaths(h) : Len(p) < MaxObjs

HasTraining(h, o) == findAttributeSlot(h[o], "training") # 0
TrainingOf(h, o) == h[o][findAttributeSlot(h[o], "training")].b

RECURSIVE Precedes(_, _)
\* Depth-first pre-order: an object before what its slots lead to, the
\* slots in order.
Precedes(p, q) ==
    IF p = << >> THEN q # << >>
    ELSE IF q = << >> THEN FALSE
    ELSE \/ p[1] < q[1]
         \/ p[1] = q[1] /\ Precedes(Tail(p), Tail(q))

RECURSIVE InOrder(_)
\* The paths of a set, earliest first.
InOrder(S) ==
    IF S = {} THEN << >>
    ELSE LET first == CHOOSE p \in S : \A q \in S \ {p} : Precedes(p, q)
         IN <<first>> \o InOrder(S \ {first})

TreeOps == {"train", "parameters", "named_parameters"}
Returned(op) == call.op = op /\ call.status = "done"

\* C13: when every object of the tree has "training" and train(on) returns,
\* is_training() gives on, the "training" slot of the root and of every
\* object reachable through object-valued slots holds on, and every other
\* slot, and every object out of reach, is as it was; on such a tree train
\* does not fail.
AllTrained(on) ==
    /\ is_training(heap) = on
    /\ \A o \in Reachable(heap) : HasTraining(heap, o) /\ TrainingOf(heap, o) = on

OnlyTrainingChanged ==
    \A o \in DOMAIN heap :
        /\ Len(heap[o]) = Len(call.before[o])
        /\ \A i \in 1..Len(heap[o]) :
               \/ heap[o][i] = call.before[o][i]
               \/ o \in Reachable(call.before) /\ heap[o][i].name = "training"

C13_TrainSetsEveryObject ==
    /\ Returned("train") => AllTrained(call.on) /\ OnlyTrainingChanged
    /\ ( /\ call.op = "train"
         /\ \A o \in Reachable(call.before) : HasTraining(call.before, o) )
       => call.status # "failed"

C13_Witness ==
    /\ Returned("train")
    /\ call.on
    /\ Cardinality(Reachable(heap)) = MaxObjs
    /\ \A o \in Reachable(heap) : ~TrainingOf(call.before, o)

\* C14: when the root or an object reachable from it through object-valued
\* slots has no "training" attribute, train(on) never returns normally, and
\* on an acyclic graph the call ends in the failed assertion; is_training()
\* on a root without "training" does not fail and gives true.
LacksTraining(h) == \E o \in Reachable(h) : ~HasTraining(h, o)

C14_TrainNeedsTraining ==
    /\ (call.op = "train" /\ LacksTraining(call.before)) =>
           /\ call.status # "done"
           /\ (Acyclic(call.before) /\ call.status # "busy") => call.status = "failed"
    /\ (call.op = "is_training" /\ ~HasTraining(heap, Root)) =>
           call.status = "done" /\ call.result = TRUE

C14_Witness ==
    /\ call.op = "train" /\ call.status = "failed"
    /\ Acyclic(call.before)
    /\ HasTraining(call.before, Root)
    /\ Len(call.visits) = MaxObjs

\* The tensor-valued slots of the tree: the path to an object and the index
\* of one of its slots that holds a tensor.
TensorSlotPaths(h) ==
    UNION { { p \o <<i>> : i \in {j \in 1..Len(h[ObjectAt(h, p)]) :
                                     h[ObjectAt(h, p)][j].kind = "tensor"} } :
            p \in ObjectPaths(h) }

\* The slot a slot path ends at.
SlotAt(h, p) == h[ObjectAt(h, Pop(p))][p[Len(p)]]

\* C15: parameters() returns the tensors of the tensor-valued slots of the
\* whole tree in depth-first slot order, a nested object's tensors at the
\* place of the slot that holds the object, one entry for each slot path
\* whether or not the tensor tracks gradients: nothing is deduplicated.
FlatParameters(h) ==
    LET order == InOrder(TensorSlotPaths(h))
    IN [k \in 1..Len(order) |-> SlotAt(h, order[k]).t]

C15_ParametersDepthFirst ==
    Returned("parameters") => call.params = FlatParameters(heap)

\* A shared object's tensors are returned once for each slot that holds the
\* object, between other tensors, and a tensor without gradients is returned.
C15_Witness ==
    /\ Returned("parameters")
    /\ \E p, q \in TensorSlotPaths(heap) :
           /\ p # q
           /\ ObjectAt(heap, Pop(p)) = ObjectAt(heap, Pop(q))
           /\ p[Len(p)] = q[Len(q)]
    /\ \E k \in 1..Len(call.params) : ~requires_grad(call.params[k])
    /\ Len(heap[Root]) >= 3

\* The gradient-tracking tensor-valued slots of the tree.
GradSlotPaths(h) ==
    {p \in TensorSlotPaths(h) : requires_grad(SlotAt(h, p).t)}

\* The attribute names along a slot path, from the root.
AttributeNames(h, p) ==
    [k \in 1..Len(p) |-> SlotAt(h, SubSeq(p, 1, k)).name]

\* Names joined by dots: no dot before the first.
DotJoined(names) ==
    [k \in 1..(2 * Len(names) - 1) |->
        IF k % 2 = 1 THEN names[(k + 1) \div 2] ELSE "."]

KeyOf(h, p) == DotJoined(AttributeNames(h, p))

\* C16: named_parameters() returns a map with exactly one entry for each
\* gradient-tracking tensor-valued slot path of the tree, under the
\* dot-joined attribute names from the root to the slot (no leading dot),
\* holding that slot's tensor and no tensor without gradients; two slot
\* paths never give the same key, and no assignment overwrites an entry.
C16_NamedParameters ==
    Returned("named_parameters") =>
        /\ DOMAIN call.named = {KeyOf(heap, p) : p \in GradSlotPaths(heap)}
        /\ \A p \in GradSlotPaths(heap) : call.named[KeyOf(heap, p)] = SlotAt(heap, p).t
        /\ \A key \in DOMAIN call.named : requires_grad(call.named[key])
        /\ \A p, q \in GradSlotPaths(heap) : KeyOf(heap, p) = KeyOf(heap, q) => p = q
        /\ call.writes = Cardinality(DOMAIN call.named)

\* A root-level entry, nested entries through a shared object, and a tensor
\* without gradients left out.
C16_Witness ==
    /\ Returned("named_parameters")
    /\ <<"weight">> \in DOMAIN call.named
    /\ \E key \in DOMAIN call.named : Len(key) = 2 * MaxObjs - 1
    /\ Cardinality(DOMAIN call.named) >= 3
    /\ TensorSlotPaths(heap) # GradSlotPaths(heap)

\* The object train(on) fails at: the earliest path, in depth-first
\* pre-order, to an object without "training".
FailingPaths(h) == {p \in ObjectPaths(h) : ~HasTraining(h, ObjectAt(h, p))}
FailingPath(h) ==
    CHOOSE p \in FailingPaths(h) : \A q \in FailingPaths(h) \ {p} : Precedes(p, q)

\* The objects met before the failing one.
Preceding(h) ==
    LET failing == FailingPath(h)
    IN {ObjectAt(h, p) : p \in {q \in ObjectPaths(h) : Precedes(q, failing)}}

\* C20: when train(on) fails because an object lacks "training", every
\* object before the failing one in depth-first pre-order (an object before
\* its slots, the slots in order) has "training" set to on, and every object
\* met only after it, the failing object included, is as it was before the
\* call: the writes made are not undone.
C20_TrainNotAtomic ==
    (call.op = "train" /\ call.status = "failed") =>
        /\ FailingPaths(call.before) # {}
        /\ LET preceding == Preceding(call.before)
           IN /\ \A o \in preceding :
                     HasTraining(heap, o) /\ TrainingOf(heap, o) = call.on
              /\ \A o \in DOMAIN heap :
                     o \notin preceding => heap[o] = call.before[o]
        /\ OnlyTrainingChanged

\* The root is switched on, the next object fails, and an object that has
\* the attribute and is met only later stays off.
C20_Witness ==
    /\ call.op = "train" /\ call.status = "failed" /\ call.on
    /\ Preceding(call.before) # {}
    /\ \A o \in Preceding(call.before) :
           ~TrainingOf(call.before, o) /\ TrainingOf(heap, o)
    /\ \E o \in Reachable(call.before) \ Preceding(call.before) :
           HasTraining(call.before, o)

\* The objects of the tree, once for each path from the root, in depth-first
\* pre-order.
PathVisits(h) ==
    LET order == InOrder(ObjectPaths(h))
    IN [k \in 1..Len(order) |-> ObjectAt(h, order[k])]

TimesVisited(o) == Cardinality({k \in DOMAIN call.visits : call.visits[k] = o})

\* C18: on an acyclic object graph, shared objects included, a call of
\* train, parameters or named_parameters ends, and a call that returns has
\* entered each object once for every path that reaches it from the root;
\* the recursion runs out only on a cyclic graph, where no call returns and
\* parameters and named_parameters never end: nothing records the objects
\* already entered.
C18_TerminatesIfAcyclic ==
    /\ (call.status = "busy" /\ Acyclic(heap)) ~> (call.status \in {"done", "failed"})
    /\ [](\A op \in TreeOps : Returned(op) => call.visits = PathVisits(heap))
    /\ [](call.status = "overflow" => ~Acyclic(heap))
    /\ []((call.op \in TreeOps /\ ~Acyclic(heap)) => call.status # "done")
    /\ (call.status = "busy" /\ call.op # "train" /\ ~Acyclic(heap))
           ~> (call.status = "overflow")

\* A returned call on a graph whose last object is reached by several paths.
C18_Witness ==
    /\ call.op \in TreeOps /\ call.status = "done"
    /\ Acyclic(heap)
    /\ TimesVisited(MaxObjs) >= 2

====
